---- MODULE Spec2Model ----
(***************************************************************************)
(* Model of dags/model_evaluate.py: the Airflow DAG model_evaluate with    *)
(* its four tasks data_collect, evaluate, collect_metric and send_result.  *)
(*                                                                         *)
(* The collaborators imported from util (_GET_PREDICTION, _GET_QA,         *)
(* _LOG_METRIC, _SEND_RESULT) are external: each call either raises or     *)
(* returns, and what it returns is drawn from bounded sets.  The sklearn   *)
(* and numpy reductions called by evaluate are modelled by what they       *)
(* compute, over integer measurements and exact rationals.                 *)
(***************************************************************************)
EXTENDS Integers, Sequences, FiniteSets, TLC

(***************************************************************************)
(* Bounds of the model.                                                    *)
(***************************************************************************)
\* Item identifiers are 1..MaxRows; a fetched table has at most MaxRows rows.
MaxRows == 2
\* Under SpecEval the cells of the matrices given to evaluate are 0..MaxVal.
MaxVal == 2

(***************************************************************************)
(* Program constants.                                                      *)
(***************************************************************************)
\* params['targets_name'], cut to the first two of the eight configured
\* targets; ground_truth[targets_name] keeps exactly these columns.
targets_name == <<"al_squeeze_out_x", "al_squeeze_out_y">>

\* Mutant: the tasks are given one retry.
TaskRetries_one == 0 + 1

\* The @task decorators set no retries, so every task has Airflow's default.
TaskRetries == 0

\* A missing value (NaN) in a ground-truth cell; no measurement is negative.
NaN == -1

Cols == 1..Len(targets_name)
\* The measurements the fetches return in a run of the DAG (Spec).
PipelineVals == {0, 1}
\* The cells of the matrices evaluate is applied to on its own (SpecEval).
EvalVals == 0..MaxVal
UIDs == 1..MaxRows

Tasks == {"data_collect", "evaluate", "collect_metric", "send_result"}

(***************************************************************************)
(* Exact rationals <<p, q>> with q > 0 in lowest terms; <<0, 0>> stands    *)
(* for float('nan').                                                       *)
(***************************************************************************)
Abs(x) == IF x < 0 THEN -x ELSE x

RECURSIVE GCD(_, _)
GCD(a, b) == IF b = 0 THEN a ELSE GCD(b, a % b)

Rat(p, q) ==
    LET g == GCD(Abs(p), Abs(q))
        s == IF q < 0 THEN -1 ELSE 1
    IN  <<(s * p) \div g, (s * q) \div g>>

RatAdd(x, y) == Rat(x[1] * y[2] + y[1] * x[2], x[2] * y[2])

RatNaN == <<0, 0>>

(***************************************************************************)
(* Matrices are sequences of rows, a row a sequence of cells indexed by    *)
(* the position of the target in targets_name.                             *)
(***************************************************************************)
RECURSIVE SumTo(_, _)
\* sum of f[1] + ... + f[n]
SumTo(f, n) == IF n = 0 THEN 0 ELSE f[n] + SumTo(f, n - 1)

RECURSIVE RatSumTo(_, _)
RatSumTo(f, n) == IF n = 0 THEN <<0, 1>> ELSE RatAdd(f[n], RatSumTo(f, n - 1))

RECURSIVE MaxTo(_, _)
\* numpy ndarray.max over f[1..n], n >= 1
MaxTo(f, n) ==
    IF n = 1 THEN f[1]
    ELSE LET m == MaxTo(f, n - 1) IN IF f[n] > m THEN f[n] ELSE m

RECURSIVE MinTo(_, _)
\* numpy ndarray.min over f[1..n], n >= 1
MinTo(f, n) ==
    IF n = 1 THEN f[1]
    ELSE LET m == MinTo(f, n - 1) IN IF f[n] < m THEN f[n] ELSE m

NRows(m) == Len(m)
NCols(m) == IF Len(m) = 0 THEN Len(targets_name) ELSE Len(m[1])

\* The matrix flattened in row-major order, as numpy iterates it.
Flat(m) ==
    LET w == NCols(m)
    IN  [k \in 1..(NRows(m) * w) |-> m[((k - 1) \div w) + 1][((k - 1) % w) + 1]]

(***************************************************************************)
(* The library reductions evaluate calls.                                  *)
(***************************************************************************)
Sq(x) == x * x

\* sklearn's _check_reg_targets, run first by r2_score and mean_squared_error:
\* ValueError on inconsistent numbers of samples, on an empty array, on a
\* missing value and on different numbers of outputs.
CheckRegTargetsRaises(y_true, y_pred) ==
    \/ NRows(y_true) # NRows(y_pred)
    \/ NRows(y_true) = 0
    \/ NCols(y_true) # NCols(y_pred)
    \/ \E i \in 1..NRows(y_true) : \E c \in 1..NCols(y_true) :
           y_true[i][c] = NaN \/ y_pred[i][c] = NaN

\* Mutant: the score of a constant column is 0 even when the residual is 0.
ColumnScore_naive(y_true, y_pred, c) ==
    LET n   == NRows(y_true)
        res == SumTo([i \in 1..n |-> Sq(y_true[i][c] - y_pred[i][c])], n)
        sy  == SumTo([i \in 1..n |-> y_true[i][c]], n)
        sy2 == SumTo([i \in 1..n |-> Sq(y_true[i][c])], n)
        tot == n * sy2 - sy * sy
    IN  IF tot = 0 THEN <<0, 1>> ELSE Rat(tot - n * res, tot)

\* n * (residual sum of squares) and n * (total sum of squares) of column c,
\* and the column's score as sklearn's r2_score defines it (force_finite).
ColumnScore(y_true, y_pred, c) ==
    LET n   == NRows(y_true)
        res == SumTo([i \in 1..n |-> Sq(y_true[i][c] - y_pred[i][c])], n)
        sy  == SumTo([i \in 1..n |-> y_true[i][c]], n)
        sy2 == SumTo([i \in 1..n |-> Sq(y_true[i][c])], n)
        tot == n * sy2 - sy * sy
    IN  IF res = 0 THEN <<1, 1>>
        ELSE IF tot = 0 THEN <<0, 1>>
        ELSE Rat(tot - n * res, tot)

\* r2_score(y_true, y_pred) on checked inputs: nan with fewer than two
\* samples, else the uniform average of the column scores.
r2_score(y_true, y_pred) ==
    IF NRows(y_pred) < 2 THEN RatNaN
    ELSE LET w == NCols(y_true)
             s == RatSumTo([c \in 1..w |-> ColumnScore(y_true, y_pred, c)], w)
         IN  Rat(s[1], s[2] * w)

\* mean_squared_error(y_true, y_pred) on checked inputs.
mean_squared_error(y_true, y_pred) ==
    LET n == NRows(y_true) * NCols(y_true)
        t == Flat(y_true)
        p == Flat(y_pred)
    IN  Rat(SumTo([k \in 1..n |-> Sq(t[k] - p[k])], n), n)

\* Mutant: the operands of the subtraction are swapped.
Errors_swapped(ground_truth, prediction) ==
    LET t == Flat(ground_truth)
        p == Flat(prediction)
    IN  [k \in 1..(NRows(ground_truth) * NCols(ground_truth)) |-> t[k] - p[k]]

\* errors = prediction.values - ground_truth.values, flattened.
Errors(ground_truth, prediction) ==
    LET t == Flat(ground_truth)
        p == Flat(prediction)
    IN  [k \in 1..(NRows(ground_truth) * NCols(ground_truth)) |-> p[k] - t[k]]

MetricNames == {"r2_score", "mse_score", "pos_max_err", "neg_max_err"}

(***************************************************************************)
(* try / except Exception as e: print(...); raise e -- the exception that  *)
(* leaves a task body is the one that was caught.                          *)
(***************************************************************************)
Reraise(e) == e

(***************************************************************************)
(* The body of evaluate(ground_truth, prediction).  `computed` is the set  *)
(* of metrics that were computed before the body returned or raised.       *)
(***************************************************************************)
ComputeMetrics(ground_truth, prediction) ==
    LET errors == Errors(ground_truth, prediction)
        n      == NRows(ground_truth) * NCols(ground_truth)
    IN  [r2_score    |-> r2_score(ground_truth, prediction),
         mse_score   |-> mean_squared_error(ground_truth, prediction),
         pos_max_err |-> MaxTo(errors, n),
         neg_max_err |-> MinTo(errors, n)]

\* Mutant: no check of the number of samples; the metrics are computed over
\* the rows both matrices have.
EvaluateBody_truncate(ground_truth, prediction) ==
    LET k == IF NRows(ground_truth) < NRows(prediction)
             THEN NRows(ground_truth) ELSE NRows(prediction)
    IN  IF k = 0
        THEN [raised |-> Reraise("ValueError"), value |-> <<>>, computed |-> {}]
        ELSE [raised |-> "none",
              value |-> <<ComputeMetrics(SubSeq(ground_truth, 1, k),
                                         SubSeq(prediction, 1, k))>>,
              computed |-> MetricNames]

EvaluateBody(ground_truth, prediction) ==
    IF CheckRegTargetsRaises(ground_truth, prediction)
    THEN [raised |-> Reraise("ValueError"), value |-> <<>>, computed |-> {}]
    ELSE [raised |-> "none",
          value |-> <<ComputeMetrics(ground_truth, prediction)>>,
          computed |-> MetricNames]

(***************************************************************************)
(* What the external fetches can do.                                       *)
(***************************************************************************)
RECURSIVE SortedSeq(_)
SortedSeq(S) ==
    IF S = {} THEN <<>>
    ELSE LET m == CHOOSE x \in S : \A y \in S : y <= x
         IN  Append(SortedSeq(S \ {m}), m)

\* _GET_PREDICTION(prediction_path, targets_name): raises, or returns
\* (prediction, uid) with one row of predicted targets per item.
PredictionResults ==
    {[raised |-> "PredictionError", prediction |-> <<>>, uid |-> <<>>]}
    \cup
    UNION {{[raised |-> "none", prediction |-> m, uid |-> SortedSeq(S)] :
               m \in [1..Cardinality(S) -> [Cols -> PipelineVals]]} : S \in SUBSET UIDs}

\* _GET_QA(date, lot_id): raises, returns a table without the expected
\* columns, or returns rows of mapping_uid and target cells, some missing.
QAResults ==
    {[raised |-> "QAError", has_columns |-> TRUE, mapping_uid |-> <<>>, cells |-> <<>>],
     [raised |-> "none", has_columns |-> FALSE, mapping_uid |-> <<>>, cells |-> <<>>]}
    \cup
    UNION {{[raised |-> "none", has_columns |-> TRUE,
             mapping_uid |-> SortedSeq(S), cells |-> m] :
               m \in [1..Cardinality(S) -> [Cols -> PipelineVals \cup {NaN}]]} : S \in SUBSET UIDs}

ToSet(s) == {s[i] : i \in 1..Len(s)}

RowHasNaN(r) == \E c \in 1..Len(r) : r[c] = NaN

RECURSIVE DropNaTo(_, _)
DropNaTo(m, n) ==
    IF n = 0 THEN <<>>
    ELSE IF RowHasNaN(m[n]) THEN DropNaTo(m, n - 1)
    ELSE Append(DropNaTo(m, n - 1), m[n])

\* DataFrame.dropna(): the rows without a missing value, in order.
DropNa(m) == DropNaTo(m, Len(m))

\* The calls data_collect makes, with their arguments from params.
\* `raised` is what the call did: "none" when it returned.
GetPredictionCall(raised) ==
    [fn |-> "_GET_PREDICTION", args |-> <<"prediction_path", targets_name>>,
     raised |-> raised]
GetQACall(raised) ==
    [fn |-> "_GET_QA", args |-> <<"date", "lot_id">>, raised |-> raised]

(***************************************************************************)
(* The body of data_collect(), given what the two fetches do.              *)
(***************************************************************************)
\* Mutant: a mismatch of the identifier sets is raised as an error.
DataCollectBody_strict(pred, qa) ==
    IF pred.raised # "none"
    THEN [raised |-> Reraise(pred.raised), value |-> <<>>, warned |-> FALSE,
          called |-> <<GetPredictionCall(pred.raised)>>]
    ELSE IF qa.raised # "none"
    THEN [raised |-> Reraise(qa.raised), value |-> <<>>, warned |-> FALSE,
          called |-> <<GetPredictionCall("none"), GetQACall(qa.raised)>>]
    ELSE IF ~qa.has_columns
    THEN [raised |-> Reraise("KeyError"), value |-> <<>>, warned |-> FALSE,
          called |-> <<GetPredictionCall("none"), GetQACall("none")>>]
    ELSE IF ToSet(pred.uid) # ToSet(qa.mapping_uid)
    THEN [raised |-> Reraise("ValueError"), value |-> <<>>, warned |-> TRUE,
          called |-> <<GetPredictionCall("none"), GetQACall("none")>>]
    ELSE [raised |-> "none",
          value  |-> <<[prediction |-> pred.prediction,
                        ground_truth |-> DropNa(qa.cells)]>>,
          warned |-> FALSE,
          called |-> <<GetPredictionCall("none"), GetQACall("none")>>]

DataCollectBody(pred, qa) ==
    IF pred.raised # "none"
    THEN [raised |-> Reraise(pred.raised), value |-> <<>>, warned |-> FALSE,
          called |-> <<GetPredictionCall(pred.raised)>>]
    ELSE IF qa.raised # "none"
    THEN [raised |-> Reraise(qa.raised), value |-> <<>>, warned |-> FALSE,
          called |-> <<GetPredictionCall("none"), GetQACall(qa.raised)>>]
    ELSE IF ~qa.has_columns
    THEN [raised |-> Reraise("KeyError"), value |-> <<>>, warned |-> FALSE,
          called |-> <<GetPredictionCall("none"), GetQACall("none")>>]
    ELSE LET g_uid        == qa.mapping_uid
             ground_truth == DropNa(qa.cells)
             uids_match   == ToSet(pred.uid) = ToSet(g_uid)
         IN  [raised |-> "none",
              value  |-> <<[prediction |-> pred.prediction,
                            ground_truth |-> ground_truth]>>,
              warned |-> ~uids_match,
              called |-> <<GetPredictionCall("none"), GetQACall("none")>>]

(***************************************************************************)
(* The bodies of collect_metric(metrics) and send_result(metrics), given   *)
(* what the endpoint does.  `metrics` is the XCom of evaluate: <<m>> when  *)
(* evaluate returned m.                                                    *)
(***************************************************************************)
TransportOutcomes == {"none", "TransportError"}

\* Mutant: the record is logged without its neg_max_err field.
CollectMetricBody_partial(metrics, outcome) ==
    [raised |-> Reraise(outcome),
     value  |-> IF outcome = "none" THEN <<"log_metric_response">> ELSE <<>>,
     called |-> <<[fn |-> "_LOG_METRIC",
                  args |-> <<"model_id",
                             IF metrics = <<>> THEN <<>>
                             ELSE <<[r2_score    |-> metrics[1].r2_score,
                                     mse_score   |-> metrics[1].mse_score,
                                     pos_max_err |-> metrics[1].pos_max_err]>>>>,
                  raised |-> outcome]>>]

CollectMetricBody(metrics, outcome) ==
    [raised |-> Reraise(outcome),
     value  |-> IF outcome = "none" THEN <<"log_metric_response">> ELSE <<>>,
     called |-> <<[fn |-> "_LOG_METRIC", args |-> <<"model_id", metrics>>,
                  raised |-> outcome]>>]

SendResultBody(metrics, outcome) ==
    [raised |-> Reraise(outcome),
     value  |-> IF outcome = "none" THEN <<"send_result_response">> ELSE <<>>,
     called |-> <<[fn |-> "_SEND_RESULT", args |-> <<"model_id", "dag_run", metrics>>,
                  raised |-> outcome]>>]

(***************************************************************************)
(* The DAG: which task results each task consumes.                         *)
(***************************************************************************)
\* Mutant: the four tasks are wired as one chain.
Upstream_chain(t) ==
    CASE t = "data_collect"   -> {}
      [] t = "evaluate"       -> {"data_collect"}
      [] t = "collect_metric" -> {"evaluate"}
      [] t = "send_result"    -> {"collect_metric"}

Upstream(t) ==
    CASE t = "data_collect"   -> {}
      [] t = "evaluate"       -> {"data_collect"}
      [] t = "collect_metric" -> {"evaluate"}
      [] t = "send_result"    -> {"evaluate"}

(***************************************************************************)
(* State of one DAG run.                                                   *)
(***************************************************************************)
VARIABLES
    task,       \* task -> "none", "running", "success", "failed",
                \*         "up_for_retry", "upstream_failed"
    attempts,   \* task -> number of times the task was started
    xcom,       \* task -> <<>> or <<return value>>
    exc,        \* task -> the exception that left the task body, or "none"
    calls,      \* the calls made to the external collaborators, in order
    warned,     \* data_collect printed the mapping_uid warning
    computed,   \* the metrics evaluate computed in its last attempt
    fetched     \* what the fetches returned to data_collect

vars == <<task, attempts, xcom, exc, calls, warned, computed, fetched>>

Init ==
    /\ task = [t \in Tasks |-> "none"]
    /\ attempts = [t \in Tasks |-> 0]
    /\ xcom = [t \in Tasks |-> <<>>]
    /\ exc = [t \in Tasks |-> "none"]
    /\ calls = <<>>
    /\ warned = FALSE
    /\ computed = {}
    /\ fetched = [prediction |-> <<>>, qa |-> <<>>]

\* The state a task instance takes when its body ends with result r.
EndState(t, r) ==
    IF r.raised = "none" THEN "success"
    ELSE IF attempts[t] <= TaskRetries THEN "up_for_retry"
    ELSE "failed"

\* Mutant: a task starts once its upstream tasks are done, failed or not.
Start_all_done(t) ==
    /\ task[t] \in {"none", "up_for_retry"}
    /\ \A u \in Upstream(t) : task[u] \in {"success", "failed", "upstream_failed"}
    /\ task' = [task EXCEPT ![t] = "running"]
    /\ attempts' = [attempts EXCEPT ![t] = @ + 1]
    /\ UNCHANGED <<xcom, exc, calls, warned, computed, fetched>>

\* The scheduler starts a task whose upstream tasks all succeeded
\* (trigger rule all_success).
Start(t) ==
    /\ task[t] \in {"none", "up_for_retry"}
    /\ \A u \in Upstream(t) : task[u] = "success"
    /\ task' = [task EXCEPT ![t] = "running"]
    /\ attempts' = [attempts EXCEPT ![t] = @ + 1]
    /\ UNCHANGED <<xcom, exc, calls, warned, computed, fetched>>

\* The scheduler marks a task upstream_failed when an upstream task failed.
UpstreamFailed(t) ==
    /\ task[t] = "none"
    /\ \E u \in Upstream(t) : task[u] \in {"failed", "upstream_failed"}
    /\ task' = [task EXCEPT ![t] = "upstream_failed"]
    /\ UNCHANGED <<attempts, xcom, exc, calls, warned, computed, fetched>>

Finish(t, r) ==
    /\ task' = [task EXCEPT ![t] = EndState(t, r)]
    /\ xcom' = [xcom EXCEPT ![t] = r.value]
    /\ exc' = [exc EXCEPT ![t] = r.raised]
    /\ UNCHANGED attempts

data_collect ==
    /\ task["data_collect"] = "running"
    /\ \E pred \in PredictionResults : \E qa \in QAResults :
          LET r == DataCollectBody(pred, qa)
          IN  /\ Finish("data_collect", r)
              /\ calls' = calls \o r.called
              /\ warned' = r.warned
              /\ fetched' = [prediction |-> <<pred>>,
                             qa |-> IF Len(r.called) = 2 THEN <<qa>> ELSE <<>>]
    /\ UNCHANGED computed

evaluate ==
    /\ task["evaluate"] = "running"
    /\ LET dc == xcom["data_collect"][1]
           r  == EvaluateBody(dc.ground_truth, dc.prediction)
       IN  /\ Finish("evaluate", [raised |-> r.raised, value |-> r.value])
           /\ computed' = r.computed
    /\ UNCHANGED <<calls, warned, fetched>>

collect_metric ==
    /\ task["collect_metric"] = "running"
    /\ \E outcome \in TransportOutcomes :
          LET r == CollectMetricBody(xcom["evaluate"], outcome)
          IN  /\ Finish("collect_metric", r)
              /\ calls' = calls \o r.called
    /\ UNCHANGED <<warned, computed, fetched>>

send_result ==
    /\ task["send_result"] = "running"
    /\ \E outcome \in TransportOutcomes :
          LET r == SendResultBody(xcom["evaluate"], outcome)
          IN  /\ Finish("send_result", r)
              /\ calls' = calls \o r.called
    /\ UNCHANGED <<warned, computed, fetched>>

Next ==
    \/ \E t \in Tasks : Start(t)
    \/ \E t \in Tasks : UpstreamFailed(t)
    \/ data_collect
    \/ evaluate
    \/ collect_metric
    \/ send_result

Spec == Init /\ [][Next]_vars

(***************************************************************************)
(* evaluate on its own: the task is about to run on a pair of matrices     *)
(* drawn from EvalMatrices (any two shapes of up to two rows).             *)
(***************************************************************************)
EvalMatrices == UNION {[1..n -> [Cols -> EvalVals]] : n \in {0, 1, 2}}

InitEval ==
    /\ task = [t \in Tasks |-> IF t = "data_collect" THEN "success"
                               ELSE IF t = "evaluate" THEN "running" ELSE "none"]
    /\ attempts = [t \in Tasks |-> IF t \in {"data_collect", "evaluate"} THEN 1 ELSE 0]
    /\ \E g \in EvalMatrices : \E p \in EvalMatrices :
          xcom = [t \in Tasks |-> IF t = "data_collect"
                                  THEN <<[prediction |-> p, ground_truth |-> g]>>
                                  ELSE <<>>]
    /\ exc = [t \in Tasks |-> "none"]
    /\ calls = <<GetPredictionCall("none"), GetQACall("none")>>
    /\ warned = FALSE
    /\ computed = {}
    /\ fetched = [prediction |-> <<>>, qa |-> <<>>]

NextEval == evaluate

SpecEval == InitEval /\ [][NextEval]_vars

(***************************************************************************)
(* Properties.                                                             *)
(***************************************************************************)
Called(fn) == \E i \in 1..Len(calls) : calls[i].fn = fn

Started(t) == attempts[t] > 0

Ended(t) == task[t] \in {"success", "failed"}

Shape(m) == <<NRows(m), NCols(m)>>

\* data_collect returned: its two outputs.
Collected == xcom["data_collect"] # <<>>
ground_truth == xcom["data_collect"][1].ground_truth
prediction == xcom["data_collect"][1].prediction

\* Both fetches returned a usable table.
FetchedBoth ==
    /\ fetched.prediction # <<>> /\ fetched.prediction[1].raised = "none"
    /\ fetched.qa # <<>> /\ fetched.qa[1].raised = "none"
    /\ fetched.qa[1].has_columns

\* C1: evaluate starts only after data_collect succeeded, collect_metric and
\* send_result start only after evaluate succeeded, and once evaluate has
\* succeeded each of the two can start whatever the state of the other.
C1_DependencyOrder ==
    /\ Started("evaluate") => task["data_collect"] = "success"
    /\ Started("collect_metric") => task["evaluate"] = "success"
    /\ Started("send_result") => task["evaluate"] = "success"
    /\ (task["evaluate"] = "success" /\ task["collect_metric"] = "none")
           => ENABLED Start("collect_metric")
    /\ (task["evaluate"] = "success" /\ task["send_result"] = "none")
           => ENABLED Start("send_result")

\* send_result has ended while collect_metric has not started.
C1_Witness ==
    /\ task["send_result"] = "success"
    /\ task["collect_metric"] = "none"

\* C2 (as claimed): once any task has failed, no task that has not started
\* is started.
C2_NoStartAfterAnyFailure ==
    [][(\E f \in Tasks : task[f] = "failed")
           => \A t \in Tasks : task[t] = "none" => task'[t] # "running"]_vars

\* C2 (amended): once data_collect or evaluate has failed, no task that has
\* not started is started.
C2_NoStartAfterUpstreamFailure ==
    [][(task["data_collect"] = "failed" \/ task["evaluate"] = "failed")
           => \A t \in Tasks : task[t] = "none" => task'[t] # "running"]_vars

\* evaluate failed and both consumers were marked upstream_failed unstarted.
C2_Witness ==
    /\ task["evaluate"] = "failed"
    /\ task["collect_metric"] = "upstream_failed"
    /\ task["send_result"] = "upstream_failed"
    /\ ~Started("collect_metric") /\ ~Started("send_result")

\* C3: when the matrices given to evaluate differ in shape, no metric is
\* computed, evaluate ends failed with the ValueError, and neither
\* _LOG_METRIC nor _SEND_RESULT is called.
C3_ShapeMismatchFatal ==
    (Collected /\ Shape(ground_truth) # Shape(prediction)) =>
        /\ computed = {}
        /\ xcom["evaluate"] = <<>>
        /\ task["evaluate"] # "success"
        /\ (Started("evaluate") /\ task["evaluate"] # "running")
               => (task["evaluate"] = "failed" /\ exc["evaluate"] = "ValueError")
        /\ ~Called("_LOG_METRIC") /\ ~Called("_SEND_RESULT")
        /\ ~Started("collect_metric") /\ ~Started("send_result")

\* evaluate ran on matrices of different shapes and the run is over.
C3_Witness ==
    /\ Collected /\ Shape(ground_truth) # Shape(prediction)
    /\ NRows(ground_truth) > 0 /\ NRows(prediction) > 0
    /\ task["evaluate"] = "failed"
    /\ task["collect_metric"] = "upstream_failed"
    /\ task["send_result"] = "upstream_failed"

\* C4 (as claimed): when both sources hold the same items and a fetched
\* ground-truth row has a missing target value while another row is
\* complete, the row is dropped, no error is raised and evaluate does not
\* fail.
C4_MissingRowDroppedRunCompletes ==
    (/\ FetchedBoth
     /\ ToSet(fetched.prediction[1].uid) = ToSet(fetched.qa[1].mapping_uid)
     /\ \E i \in 1..Len(fetched.qa[1].cells) : RowHasNaN(fetched.qa[1].cells[i])
     /\ \E i \in 1..Len(fetched.qa[1].cells) : ~RowHasNaN(fetched.qa[1].cells[i]))
    => /\ task["data_collect"] = "success"
       /\ \A i \in 1..Len(ground_truth) : ~RowHasNaN(ground_truth[i])
       /\ task["evaluate"] # "failed"

\* C5: when the identifier sets of the two sources differ, data_collect
\* warns, raises nothing, succeeds, returns the prediction as fetched and
\* every fetched ground-truth row that has no missing value (whether or not
\* its identifier is in the prediction), and evaluate is not skipped.
C5_UidMismatchWarnsOnly ==
    (/\ FetchedBoth
     /\ ToSet(fetched.prediction[1].uid) # ToSet(fetched.qa[1].mapping_uid))
    => /\ warned
       /\ task["data_collect"] = "success"
       /\ exc["data_collect"] = "none"
       /\ Collected
       /\ prediction = fetched.prediction[1].prediction
       /\ LET cells == fetched.qa[1].cells
              kept  == {i \in 1..Len(cells) : ~RowHasNaN(cells[i])}
          IN  /\ Len(ground_truth) = Cardinality(kept)
              /\ \A i \in kept :
                    ground_truth[Cardinality({j \in kept : j <= i})] = cells[i]
       /\ task["evaluate"] # "upstream_failed"
       /\ task["evaluate"] = "none" => ENABLED Start("evaluate")

\* The identifier sets differed and evaluate went on to succeed.
C5_Witness ==
    /\ FetchedBoth
    /\ ToSet(fetched.prediction[1].uid) # ToSet(fetched.qa[1].mapping_uid)
    /\ warned
    /\ task["evaluate"] = "success"

\* C6 (as claimed): whenever data_collect returns, ground_truth and
\* prediction have the same shape.
C6_ReturnedPairAligned ==
    Collected => Shape(ground_truth) = Shape(prediction)

Perfect == [r2_score |-> <<1, 1>>, mse_score |-> <<0, 1>>,
            pos_max_err |-> 0, neg_max_err |-> 0]

\* C7 (as claimed): whenever evaluate returns on identical matrices, the
\* record is r2_score 1, mse_score 0, pos_max_err 0, neg_max_err 0.
C7_IdenticalIsPerfect ==
    (Collected /\ ground_truth = prediction /\ xcom["evaluate"] # <<>>)
        => xcom["evaluate"][1] = Perfect

\* C7 (amended): on identical matrices of at least two rows evaluate
\* succeeds with that record; on identical one-row matrices it succeeds with
\* r2_score nan and the other three 0.
C7_IdenticalIsPerfectFromTwoRows ==
    (Collected /\ ground_truth = prediction /\ Ended("evaluate")) =>
        /\ NRows(prediction) >= 2 =>
              (task["evaluate"] = "success" /\ xcom["evaluate"][1] = Perfect)
        /\ NRows(prediction) = 1 =>
              (/\ task["evaluate"] = "success"
               /\ xcom["evaluate"][1] = [Perfect EXCEPT !.r2_score = RatNaN])

\* evaluate returned on identical two-row matrices with a constant column.
C7_Witness ==
    /\ Collected /\ ground_truth = prediction
    /\ NRows(prediction) = 2
    /\ prediction[1][1] = prediction[2][1]
    /\ prediction[1][2] # prediction[2][2]
    /\ task["evaluate"] = "success"

\* prediction - ground_truth at row i, column c of what evaluate was given.
CellError(i, c) == prediction[i][c] - ground_truth[i][c]

\* C8: whenever evaluate returns, pos_max_err is the maximum and neg_max_err
\* the minimum of prediction - ground_truth over all cells; when every cell
\* differs by the same c > 0, both are c.
C8_MaxMinError ==
    (Collected /\ xcom["evaluate"] # <<>>) =>
        LET m    == xcom["evaluate"][1]
            rows == 1..NRows(prediction)
        IN  /\ \E i \in rows : \E c \in Cols : CellError(i, c) = m.pos_max_err
            /\ \A i \in rows : \A c \in Cols : CellError(i, c) <= m.pos_max_err
            /\ \E i \in rows : \E c \in Cols : CellError(i, c) = m.neg_max_err
            /\ \A i \in rows : \A c \in Cols : CellError(i, c) >= m.neg_max_err
            /\ \A k \in 1..MaxVal :
                  (\A i \in rows : \A c \in Cols : CellError(i, c) = k)
                      => (m.pos_max_err = k /\ m.neg_max_err = k)

\* evaluate returned on two-row matrices that differ by the same c > 0 in
\* every cell.
C8_Witness ==
    /\ Collected /\ xcom["evaluate"] # <<>>
    /\ NRows(prediction) = 2
    /\ CellError(1, 1) > 0
    /\ \A i \in 1..2 : \A c \in Cols : CellError(i, c) = CellError(1, 1)
    /\ ground_truth[1] # ground_truth[2]

\* C9: evaluate runs at most once, its record has exactly the four fields,
\* and every call of _LOG_METRIC and of _SEND_RESULT is given the record
\* evaluate returned.
C9_MetricsPassedUnchanged ==
    /\ attempts["evaluate"] <= 1
    /\ xcom["evaluate"] # <<>> => DOMAIN xcom["evaluate"][1] = MetricNames
    /\ \A i \in 1..Len(calls) :
          /\ calls[i].fn = "_LOG_METRIC" =>
                (xcom["evaluate"] # <<>> /\ calls[i].args[2] = xcom["evaluate"])
          /\ calls[i].fn = "_SEND_RESULT" =>
                (xcom["evaluate"] # <<>> /\ calls[i].args[3] = xcom["evaluate"])

\* _SEND_RESULT was called before _LOG_METRIC.
C9_Witness ==
    \E i \in 1..Len(calls) : \E j \in 1..Len(calls) :
        i < j /\ calls[i].fn = "_SEND_RESULT" /\ calls[j].fn = "_LOG_METRIC"

\* The task that makes each external call.
Caller(fn) ==
    CASE fn = "_GET_PREDICTION" -> "data_collect"
      [] fn = "_GET_QA"         -> "data_collect"
      [] fn = "_LOG_METRIC"     -> "collect_metric"
      [] fn = "_SEND_RESULT"    -> "send_result"

\* C10: no task is started twice or waits for a retry; a task whose body
\* raised is failed, with no return value and with the exception the failing
\* call raised; when _GET_PREDICTION raised, _GET_QA was not called and
\* evaluate is never started.
C10_FailuresFatal ==
    /\ \A t \in Tasks : attempts[t] <= 1 /\ task[t] # "up_for_retry"
    /\ \A t \in Tasks : exc[t] # "none" => (task[t] = "failed" /\ xcom[t] = <<>>)
    /\ \A t \in Tasks : task[t] = "failed" => exc[t] # "none"
    /\ \A i \in 1..Len(calls) :
          calls[i].raised # "none" => exc[Caller(calls[i].fn)] = calls[i].raised
    /\ (fetched.prediction # <<>> /\ fetched.prediction[1].raised # "none") =>
          /\ ~Called("_GET_QA")
          /\ ~Started("evaluate")
          /\ task["evaluate"] \in {"none", "upstream_failed"}

\* _GET_PREDICTION raised and the run is over.
C10_Witness ==
    /\ fetched.prediction # <<>> /\ fetched.prediction[1].raised # "none"
    /\ task["data_collect"] = "failed"
    /\ exc["data_collect"] = "PredictionError"
    /\ \A t \in Tasks \ {"data_collect"} : task[t] = "upstream_failed"

====
